---- MODULE Spec2Model ----
(***************************************************************************)
(* Model of grow_cal_8.62.py, a Streamlit script that is executed top to   *)
(* bottom on every run: the yield simulator, the energy bill, the          *)
(* extraction calculator and the setup recommender.                        *)
(*                                                                         *)
(* Numbers are exact rationals <<n, d>> in lowest terms with d > 0, so     *)
(* that 0.85, 2.2 or 28.35 are the values the source writes.  The          *)
(* rounding of IEEE doubles is not modelled.                               *)
(***************************************************************************)
EXTENDS Integers, Sequences, FiniteSets, TLC

VARIABLES
    pc, raised,
    \* sidebar
    kwh_cost, grower_skill, GRAMS_PER_WATT_LED, MAX_G_PER_SQFT,
    \* tab 1 widgets
    length, width, system_type, true_watts, light_type, co2_supplement,
    plant_count, pot_size, strain_type, training,
    \* tab 1 results
    sq_ft, med_eff, train_mult, limit_light_g, limit_space_g, limit_root_g,
    bottleneck, predicted_yield_g, gpw, canopy_density, limiting_factor,
    \* tab 2 widgets
    days_veg, days_flower, days_dry, edited_df, button,
    \* tab 2 results
    index, kwh_veg, kwh_flow, kwh_dry, total_kwh, phase_costs, total_cost,
    cost_per_gram,
    \* tab 3 widgets
    input_type, input_amount_oz, return_rate, wash_yield, press_yield,
    \* tab 3 results
    input_g, hash_g, rosin_g,
    \* tab 4 widgets
    target_unit, target_val,
    \* tab 4 results
    target_g, req_watts, req_sqft, tent_rec, light_rec, est_pots

sidebar == <<kwh_cost, grower_skill, GRAMS_PER_WATT_LED, MAX_G_PER_SQFT>>
yield_in == <<length, width, system_type, true_watts, light_type,
              co2_supplement, plant_count, pot_size, strain_type, training>>
yield_out == <<sq_ft, med_eff, train_mult, limit_light_g, limit_space_g,
               limit_root_g, bottleneck, predicted_yield_g, gpw,
               canopy_density, limiting_factor>>
power_in == <<days_veg, days_flower, days_dry, edited_df, button>>
power_out == <<index, kwh_veg, kwh_flow, kwh_dry, total_kwh, phase_costs,
               total_cost, cost_per_gram>>
extract_in == <<input_type, input_amount_oz, return_rate, wash_yield,
                press_yield>>
extract_out == <<input_g, hash_g, rosin_g>>
reverse_in == <<target_unit, target_val>>
reverse_out == <<target_g, req_watts, req_sqft, tent_rec, light_rec, est_pots>>
widgets == <<sidebar, yield_in, power_in, extract_in, reverse_in>>
vars == <<pc, raised, widgets, yield_out, power_out, extract_out, reverse_out>>

-----------------------------------------------------------------------------
(* Exact arithmetic *)

RECURSIVE GCD(_, _)
GCD(a, b) == IF b = 0 THEN a ELSE GCD(b, a % b)

Abs(a) == IF a < 0 THEN -a ELSE a

\* the number n/d, d # 0, in lowest terms
Rat(n, d) ==
    LET g == GCD(Abs(n), Abs(d))
        s == IF d < 0 THEN -1 ELSE 1
    IN  <<s * (n \div g), s * (d \div g)>>

Num(n) == <<n, 1>>
Zero == <<0, 1>>
One == <<1, 1>>

RMul(a, b) ==
    LET g1 == GCD(Abs(a[1]), b[2])
        g2 == GCD(Abs(b[1]), a[2])
    IN  Rat((a[1] \div g1) * (b[1] \div g2), (a[2] \div g2) * (b[2] \div g1))

RAdd(a, b) ==
    LET g == GCD(a[2], b[2])
    IN  Rat(a[1] * (b[2] \div g) + b[1] * (a[2] \div g), a[2] * (b[2] \div g))

\* a / b for b # 0
RDiv(a, b) == RMul(a, Rat(b[2], b[1]))

\* a < b and a <= b, over the common denominator
RLt(a, b) ==
    LET g == GCD(a[2], b[2])
    IN  a[1] * (b[2] \div g) < b[1] * (a[2] \div g)

RLe(a, b) ==
    LET g == GCD(a[2], b[2])
    IN  a[1] * (b[2] \div g) <= b[1] * (a[2] \div g)

\* math.ceil
Ceil(a) == -((-a[1]) \div a[2])

\* the state of a name the script has not assigned in this run
Unbound == <<0, 0>>
NoLabel == "unbound"

-----------------------------------------------------------------------------
(* Tab 1: yield simulator *)

LightTechs == {"High-End LED (Bar)", "Budget LED (Quantum)", "HPS/CMH", "Blurple/CFL"}
Mediums == {"Soil", "Coco Coir", "DWC/Hydro", "Aeroponics"}
Genetics == {"Photoperiod Feminized", "Autoflower", "Regular/Bagseed"}
TrainingMethods == {"Topping", "LST", "Scrog (Net)", "Mainlining"}

LightEff(lt) ==
    IF lt = "High-End LED (Bar)" THEN One
    ELSE IF lt = "Budget LED (Quantum)" THEN Rat(85, 100)
    ELSE IF lt = "HPS/CMH" THEN Rat(70, 100)
    ELSE Rat(50, 100)

MedEff(st) ==
    IF st = "Aeroponics" THEN Rat(125, 100)
    ELSE IF st = "DWC/Hydro" THEN Rat(120, 100)
    ELSE IF st = "Coco Coir" THEN Rat(110, 100)
    ELSE One

TrainMult(tr) ==
    LET base == RAdd(One, RMul(Num(Cardinality(tr)), Rat(8, 100)))
    IN  IF "Scrog (Net)" \in tr THEN RAdd(base, Rat(5, 100)) ELSE base

Co2Mult(co2) == IF co2 THEN Rat(125, 100) ELSE One

LimitLight(tw, ref, lt, co2) ==
    RMul(RMul(RMul(tw, ref), LightEff(lt)), Co2Mult(co2))

\* the density taken as the ceiling, whatever the area
LimitSpace_IgnoresArea(area, ref) == ref

LimitSpace(area, ref) == RMul(area, ref)

PlantCeiling(strain) == IF strain = "Autoflower" THEN Num(400) ELSE Num(800)

RootEff(st) == IF st \in {"DWC/Hydro", "Aeroponics"} THEN Rat(15, 10) ELSE One

PerPlantMax(pot, st, strain) ==
    LET raw == RAdd(Num(30), RMul(RMul(pot, Num(35)), RootEff(st)))
    IN  IF RLt(PlantCeiling(strain), raw) THEN PlantCeiling(strain) ELSE raw

LimitRoot(pot, st, strain, count) == RMul(PerPlantMax(pot, st, strain), count)

\* the root ceiling left out of the minimum
Min3_IgnoresRoot(a, b, c) == IF RLt(b, a) THEN b ELSE a

\* Python's min(a, b, c): the first of the smallest arguments
Min3(a, b, c) ==
    LET ab == IF RLt(b, a) THEN b ELSE a
    IN  IF RLt(c, ab) THEN c ELSE ab

MaxPhysics(tw) == RMul(tw, Num(3))

\* the hard cap left out
PredictedYield_NoCap(bn, skill, tm, me, tw) ==
    RMul(RMul(RMul(bn, skill), tm), me)

PredictedYield(bn, skill, tm, me, tw) ==
    LET p == RMul(RMul(RMul(bn, skill), tm), me)
    IN  IF RLt(MaxPhysics(tw), p) THEN MaxPhysics(tw) ELSE p

\* the chain with the space test first
LimitingFactor_SpaceFirst(bn, ll, ls, lr) ==
    IF bn = ls THEN "SPACE"
    ELSE IF bn = ll THEN "LIGHT"
    ELSE IF bn = lr THEN "ROOTS"
    ELSE NoLabel

\* the if / elif / elif chain that picks the warning
LimitingFactor(bn, ll, ls, lr) ==
    IF bn = ll THEN "LIGHT"
    ELSE IF bn = ls THEN "SPACE"
    ELSE IF bn = lr THEN "ROOTS"
    ELSE NoLabel

TabYield ==
    /\ pc = "tab_yield"
    /\ LET area == RMul(length, width)
           ll == LimitLight(true_watts, GRAMS_PER_WATT_LED, light_type, co2_supplement)
           ls == LimitSpace(area, MAX_G_PER_SQFT)
           lr == LimitRoot(pot_size, system_type, strain_type, plant_count)
           bn == Min3(ll, ls, lr)
           tm == TrainMult(training)
           me == MedEff(system_type)
           p  == PredictedYield(bn, grower_skill, tm, me, true_watts)
       IN  /\ sq_ft' = area
           /\ med_eff' = me
           /\ train_mult' = tm
           /\ limit_light_g' = ll
           /\ limit_space_g' = ls
           /\ limit_root_g' = lr
           /\ bottleneck' = bn
           /\ predicted_yield_g' = p
           /\ IF true_watts = Zero
              THEN \* predicted_yield_g / true_watts
                   /\ raised' = "ZeroDivisionError"
                   /\ pc' = "error"
                   /\ UNCHANGED <<gpw, canopy_density, limiting_factor>>
              ELSE IF area = Zero
              THEN \* predicted_yield_g / sq_ft
                   /\ raised' = "ZeroDivisionError"
                   /\ pc' = "error"
                   /\ gpw' = RDiv(p, true_watts)
                   /\ UNCHANGED <<canopy_density, limiting_factor>>
              ELSE /\ gpw' = RDiv(p, true_watts)
                   /\ canopy_density' = RDiv(p, area)
                   /\ limiting_factor' = LimitingFactor(bn, ll, ls, lr)
                   /\ pc' = "tab_power"
                   /\ UNCHANGED raised
    /\ UNCHANGED <<widgets, power_out, extract_out, reverse_out>>

-----------------------------------------------------------------------------
(* Tab 2: electricity cost *)

add_device(name, watts, duty_veg, duty_flower, duty_dry) ==
    [name |-> name, watts |-> watts, veg_duty |-> duty_veg,
     flower_duty |-> duty_flower, dry_duty |-> duty_dry]

default_devices(tw) ==
    << add_device("Main Grow Light", tw, One, One, Zero),
       add_device("Inline Fan (Exhaust)", Num(60), Rat(5, 10), One, Rat(5, 10)),
       add_device("Clip Fans", Num(30), One, One, One),
       add_device("Dehumidifier", Num(400), Rat(1, 10), Rat(4, 10), Rat(3, 10)),
       add_device("AC Unit", Num(800), Zero, Zero, Zero),
       add_device("Humidifier", Num(50), Rat(5, 10), Rat(1, 10), Zero),
       add_device("Heater", Num(1000), Zero, Zero, Zero) >>

\* "Light" in row['name']
IsLight(name) ==
    \E i \in 1..(Len(name) - 4) : SubSeq(name, i, i + 4) = "Light"

\* (w * hours * duty * days) / 1000
Kwh(w, hours, duty, days) ==
    RDiv(RMul(RMul(RMul(w, Num(hours)), duty), days), Num(1000))

KwhVeg(row, dv) ==
    IF IsLight(row.name) THEN Kwh(row.watts, 18, row.veg_duty, dv)
    ELSE Kwh(row.watts, 24, row.veg_duty, dv)

KwhFlow(row, df) ==
    IF IsLight(row.name) THEN Kwh(row.watts, 12, row.flower_duty, df)
    ELSE Kwh(row.watts, 24, row.flower_duty, df)

\* lights treated like any other device while drying
KwhDry_LightsOn(row, dd) == Kwh(row.watts, 24, row.dry_duty, dd)

KwhDry(row, dd) ==
    IF IsLight(row.name) THEN Zero
    ELSE Kwh(row.watts, 24, row.dry_duty, dd)

\* the dry phase left out of the total
AddKwh_NoDry(total, kv, kf, kd) == RAdd(total, RAdd(kv, kf))

\* total_kwh += (kwh_veg + kwh_flow + kwh_dry)
AddKwh(total, kv, kf, kd) == RAdd(total, RAdd(RAdd(kv, kf), kd))

\* phase_costs[...] += kwh * kwh_cost, for the three phases
AddPhaseCosts(costs, kv, kf, kd, price) ==
    [Veg    |-> RAdd(costs.Veg, RMul(kv, price)),
     Flower |-> RAdd(costs.Flower, RMul(kf, price)),
     Dry    |-> RAdd(costs.Dry, RMul(kd, price))]

\* total_cost / predicted_yield_g if predicted_yield_g > 0 else 0
CostPerGram(cost, grams) ==
    IF RLt(Zero, grams) THEN RDiv(cost, grams) ELSE Zero

\* if st.button("Calculate Energy Bill"): the totals are reset
TabPower ==
    /\ pc = "tab_power"
    /\ IF button
       THEN /\ total_kwh' = Zero
            /\ phase_costs' = [Veg |-> Zero, Flower |-> Zero, Dry |-> Zero]
            /\ index' = 1
            /\ pc' = "for_row"
       ELSE /\ pc' = "tab_extract"
            /\ UNCHANGED <<total_kwh, phase_costs, index>>
    /\ UNCHANGED <<raised, widgets, yield_out, extract_out, reverse_out,
                   kwh_veg, kwh_flow, kwh_dry, total_cost, cost_per_gram>>

\* one iteration of  for index, row in edited_df.iterrows()
EnergyRow ==
    /\ pc = "for_row"
    /\ index <= Len(edited_df)
    /\ LET row == edited_df[index]
           kv == KwhVeg(row, days_veg)
           kf == KwhFlow(row, days_flower)
           kd == KwhDry(row, days_dry)
       IN  /\ kwh_veg' = kv
           /\ kwh_flow' = kf
           /\ kwh_dry' = kd
           /\ total_kwh' = AddKwh(total_kwh, kv, kf, kd)
           /\ phase_costs' = AddPhaseCosts(phase_costs, kv, kf, kd, kwh_cost)
    /\ index' = index + 1
    /\ UNCHANGED <<pc, raised, widgets, yield_out, extract_out, reverse_out,
                   total_cost, cost_per_gram>>

\* the statements after the loop
EnergyTotal ==
    /\ pc = "for_row"
    /\ index > Len(edited_df)
    /\ total_cost' = RMul(total_kwh, kwh_cost)
    /\ cost_per_gram' = CostPerGram(RMul(total_kwh, kwh_cost), predicted_yield_g)
    /\ pc' = "tab_extract"
    /\ UNCHANGED <<raised, widgets, yield_out, extract_out, reverse_out,
                   index, kwh_veg, kwh_flow, kwh_dry, total_kwh, phase_costs>>

-----------------------------------------------------------------------------
(* Tab 3: hash and rosin *)

OZ == Rat(2835, 100)

\* the percentage used as a fraction
Rosin_NoPercent(grams, pct) == RMul(grams, pct)

\* input_g * (return_rate / 100)
Rosin(grams, pct) == RMul(grams, RDiv(pct, Num(100)))

\* input_g * (wash_yield / 100)
Hash(grams, pct) == RMul(grams, RDiv(pct, Num(100)))

\* number_input(..., value=float(predicted_yield_g/28.35)): the value shown
\* until the user enters one
InputAmountOz(entered, grams) ==
    IF entered = Unbound THEN RDiv(grams, OZ) ELSE entered

TabExtract ==
    /\ pc = "tab_extract"
    /\ LET oz == InputAmountOz(input_amount_oz, predicted_yield_g)
           g  == RMul(oz, OZ)
       IN  /\ input_amount_oz' = oz
           /\ input_g' = g
           /\ IF input_type = "Dry Cured Flower"
              THEN /\ rosin_g' = Rosin(g, return_rate)
                   /\ UNCHANGED hash_g
              ELSE /\ hash_g' = Hash(g, wash_yield)
                   /\ rosin_g' = Rosin(Hash(g, wash_yield), press_yield)
    /\ pc' = "tab_reverse"
    /\ UNCHANGED <<raised, sidebar, yield_in, power_in, reverse_in, input_type,
                   return_rate, wash_yield, press_yield, yield_out, power_out,
                   reverse_out>>

-----------------------------------------------------------------------------
(* Tab 4: setup recommender *)

\* the names the import statements bind
Imported == {"st", "pd", "np", "date", "timedelta"}

TargetGrams(unit, val) ==
    IF unit = "Ounces" THEN RMul(val, Rat(2835, 100))
    ELSE IF unit = "Pounds" THEN RMul(val, Rat(45359, 100))
    ELSE RMul(val, Num(1000))

ReqWatts(grams) == RDiv(grams, Rat(15, 10))
ReqSqft(grams) == RDiv(grams, Num(40))

\* the chain with inclusive upper bounds
TentLogic_Inclusive(sqft) ==
    IF RLe(sqft, Num(5)) THEN <<"2x2.5 or 2x4 Tent", "200W-300W LED">>
    ELSE IF RLe(sqft, Num(10)) THEN <<"3x3 or 2x4 Tent", "300W-480W LED">>
    ELSE IF RLe(sqft, Num(17)) THEN <<"4x4 Tent", "600W-720W Bar LED">>
    ELSE IF RLe(sqft, Num(26)) THEN <<"5x5 Tent", "800W-1000W Bar LED + CO2">>
    ELSE <<"Multiple Tents or Dedicated Room", "Multi-light Setup">>

\* the if / elif chain on req_sqft: <<tent_rec, light_rec>>
TentLogic(sqft) ==
    IF RLt(sqft, Num(5)) THEN <<"2x2.5 or 2x4 Tent", "200W-300W LED">>
    ELSE IF RLt(sqft, Num(10)) THEN <<"3x3 or 2x4 Tent", "300W-480W LED">>
    ELSE IF RLt(sqft, Num(17)) THEN <<"4x4 Tent", "600W-720W Bar LED">>
    ELSE IF RLt(sqft, Num(26)) THEN <<"5x5 Tent", "800W-1000W Bar LED + CO2">>
    ELSE <<"Multiple Tents or Dedicated Room", "Multi-light Setup">>

\* math.ceil(target_g / 112)
EstPots(grams) == Num(Ceil(RDiv(grams, Num(112))))

TabReverse ==
    /\ pc = "tab_reverse"
    /\ LET g == TargetGrams(target_unit, target_val)
       IN  /\ target_g' = g
           /\ req_watts' = ReqWatts(g)
           /\ req_sqft' = ReqSqft(g)
           /\ tent_rec' = TentLogic(ReqSqft(g))[1]
           /\ light_rec' = TentLogic(ReqSqft(g))[2]
           /\ IF "math" \in Imported
              THEN /\ est_pots' = EstPots(g)
                   /\ pc' = "done"
                   /\ UNCHANGED raised
              ELSE \* the name math is not defined
                   /\ raised' = "NameError"
                   /\ pc' = "error"
                   /\ UNCHANGED est_pots
    /\ UNCHANGED <<widgets, yield_out, power_out, extract_out>>

-----------------------------------------------------------------------------
(* The widget values a run starts from *)

MaxDevices == 2

ResultsUnbound ==
    /\ sq_ft = Unbound /\ med_eff = Unbound /\ train_mult = Unbound
    /\ limit_light_g = Unbound /\ limit_space_g = Unbound
    /\ limit_root_g = Unbound /\ bottleneck = Unbound
    /\ predicted_yield_g = Unbound /\ gpw = Unbound
    /\ canopy_density = Unbound /\ limiting_factor = NoLabel
    /\ index = 0 /\ kwh_veg = Unbound /\ kwh_flow = Unbound
    /\ kwh_dry = Unbound /\ total_kwh = Unbound
    /\ phase_costs = [Veg |-> Unbound, Flower |-> Unbound, Dry |-> Unbound]
    /\ total_cost = Unbound /\ cost_per_gram = Unbound
    /\ input_g = Unbound /\ hash_g = Unbound /\ rosin_g = Unbound
    /\ target_g = Unbound /\ req_watts = Unbound /\ req_sqft = Unbound
    /\ tent_rec = NoLabel /\ light_rec = NoLabel /\ est_pots = Unbound

\* the value= arguments of the widgets
YieldDefault ==
    /\ grower_skill = One
    /\ GRAMS_PER_WATT_LED = Rat(22, 10)
    /\ MAX_G_PER_SQFT = Num(65)
    /\ length = Num(4) /\ width = Num(4)
    /\ system_type = "Soil"
    /\ true_watts = Num(600)
    /\ light_type = "High-End LED (Bar)"
    /\ co2_supplement = FALSE
    /\ plant_count = Num(4)
    /\ pot_size = Num(5)
    /\ strain_type = "Photoperiod Feminized"
    /\ training = {}

PowerDefault ==
    /\ kwh_cost = Rat(14, 100)
    /\ days_veg = Num(35) /\ days_flower = Num(63) /\ days_dry = Num(14)
    /\ edited_df = default_devices(true_watts)
    /\ button = FALSE

ExtractDefault ==
    /\ input_type = "Dry Cured Flower"
    /\ input_amount_oz = Unbound
    /\ return_rate = Num(20)
    /\ wash_yield = Num(4)
    /\ press_yield = Num(75)

ReverseDefault ==
    /\ target_unit = "Ounces"
    /\ target_val = One

\* values inside the ranges the widgets accept
DimSet == {<<4, 4>>, <<2, 11>>}
WattSet == {50, 600, 650}
PlantSet == {4, 22}
PotSet == {Num(1), Num(5), Num(30)}
SkillSet == {Rat(5, 10), One, Rat(15, 10)}
TrainingSets == {{}, {"Topping", "LST"}, TrainingMethods}
CalibrationSet == {<<Rat(22, 10), Num(65)>>, <<Rat(22, 10), Zero>>}

YieldWidgets ==
    /\ grower_skill \in SkillSet
    /\ \E c \in CalibrationSet :
          GRAMS_PER_WATT_LED = c[1] /\ MAX_G_PER_SQFT = c[2]
    /\ \E d \in DimSet : length = Num(d[1]) /\ width = Num(d[2])
    /\ system_type \in Mediums
    /\ true_watts \in {Num(w) : w \in WattSet}
    /\ light_type \in LightTechs
    /\ co2_supplement \in BOOLEAN
    /\ plant_count \in {Num(n) : n \in PlantSet}
    /\ pot_size \in PotSet
    /\ strain_type \in {"Photoperiod Feminized", "Autoflower"}
    /\ training \in TrainingSets

DevicePool(tw) ==
    { add_device("Main Grow Light", tw, One, One, Zero),
      add_device("Veg Light", Num(200), One, Rat(5, 10), One),
      add_device("grow light strip", Num(100), One, One, One),
      add_device("Inline Fan (Exhaust)", Num(60), Rat(5, 10), One, Rat(5, 10)),
      add_device("Dehumidifier", Num(400), Rat(1, 10), Rat(4, 10), Rat(3, 10)) }

DeviceLists(tw) ==
    UNION {[1..k -> DevicePool(tw)] : k \in 0..MaxDevices}
        \cup {default_devices(tw)}

DaysSet == {<<35, 63, 14>>, <<30, 56, 0>>}
PriceSet == {Rat(14, 100), Rat(305, 1000), Zero}

PowerWidgets ==
    /\ kwh_cost \in PriceSet
    /\ \E d \in DaysSet :
          days_veg = Num(d[1]) /\ days_flower = Num(d[2]) /\ days_dry = Num(d[3])
    /\ edited_df \in DeviceLists(true_watts)
    /\ button = TRUE

ExtractWidgets ==
    /\ input_type \in {"Dry Cured Flower", "Fresh Frozen (WPFF)"}
    /\ input_amount_oz \in {Unbound, Zero, One, Num(10), Num(-1)}
    /\ return_rate \in {Num(10), Num(20), Num(30)}
    /\ wash_yield \in {One, Num(4), Num(8)}
    /\ press_yield \in {Num(40), Num(75), Num(90)}

TargetSet ==
    {Zero, One, Rat(2, 10), Rat(4, 10), Rat(68, 100), Rat(104, 100),
     Rat(112, 1000), Rat(199, 1000), Num(2), Num(10), Num(-1)}

ReverseWidgets ==
    /\ target_unit \in {"Ounces", "Pounds", "Kilograms"}
    /\ target_val \in TargetSet

\* a calibration that makes the predicted yield 0
ZeroYield ==
    /\ grower_skill = One
    /\ GRAMS_PER_WATT_LED = Rat(22, 10)
    /\ MAX_G_PER_SQFT = Zero
    /\ length = Num(4) /\ width = Num(4)
    /\ system_type = "Soil"
    /\ true_watts = Num(600)
    /\ light_type = "High-End LED (Bar)"
    /\ co2_supplement = FALSE
    /\ plant_count = Num(4)
    /\ pot_size = Num(5)
    /\ strain_type = "Photoperiod Feminized"
    /\ training = {}

Start == pc = "tab_yield" /\ raised = "none" /\ ResultsUnbound

Init ==
    /\ Start
    /\ \/ YieldWidgets /\ PowerDefault /\ ExtractDefault /\ ReverseDefault
       \/ (YieldDefault \/ ZeroYield) /\ PowerWidgets /\ ExtractDefault /\ ReverseDefault
       \/ YieldDefault /\ PowerDefault /\ ExtractWidgets /\ ReverseDefault
       \/ YieldDefault /\ PowerDefault /\ ExtractDefault /\ ReverseWidgets

Next ==
    \/ TabYield
    \/ TabPower
    \/ EnergyRow
    \/ EnergyTotal
    \/ TabExtract
    \/ TabReverse

Spec == Init /\ [][Next]_vars

\* inputs of the engines' contracts that the widgets' ranges exclude:
\* zero dimensions, and percentages from 0 to 100
ContractYield ==
    /\ grower_skill \in {Rat(5, 10), Rat(15, 10)}
    /\ GRAMS_PER_WATT_LED \in {Rat(22, 10), Num(-1)}
    /\ MAX_G_PER_SQFT = Num(65)
    /\ length \in {Zero, Num(4)} /\ width \in {Zero, Num(4)}
    /\ system_type \in Mediums
    /\ true_watts \in {Zero, Num(600)}
    /\ light_type = "High-End LED (Bar)"
    /\ co2_supplement = FALSE
    /\ plant_count \in {Zero, Num(4)}
    /\ pot_size \in {Zero, Num(5)}
    /\ strain_type = "Photoperiod Feminized"
    /\ training \in {{}, TrainingMethods}

ContractExtract ==
    /\ input_type \in {"Dry Cured Flower", "Fresh Frozen (WPFF)"}
    /\ input_amount_oz \in {Unbound, Zero, One, Num(10)}
    /\ return_rate \in {Zero, Num(20), Num(100)}
    /\ wash_yield \in {Zero, Num(4), Num(100)}
    /\ press_yield \in {Zero, Num(75), Num(100)}

InitContract ==
    /\ Start
    /\ \/ ContractYield /\ PowerDefault /\ ExtractDefault /\ ReverseDefault
       \/ ZeroYield /\ PowerWidgets /\ ExtractDefault /\ ReverseDefault
       \/ YieldDefault /\ PowerDefault /\ ContractExtract /\ ReverseDefault

SpecContract == InitContract /\ [][Next]_vars

-----------------------------------------------------------------------------
(* Properties *)

\* the smallest of three ceilings, as a value and not as a computation
Least3(a, b, c) == CHOOSE m \in {a, b, c} : RLe(m, a) /\ RLe(m, b) /\ RLe(m, c)

YieldRan == predicted_yield_g # Unbound

\* ceiling * growerSkill * trainMult * medEff
Scaled(ceiling) == RMul(RMul(RMul(ceiling, grower_skill), train_mult), med_eff)

\* C1: for every valid yield input the predicted yield is at most
\* min(limitLight, limitSpace, limitRoot) * growerSkill * trainMult * medEff
\* and at most trueWatts * 3.0.
C1_YieldWithinBottleneckAndCap ==
    YieldRan =>
        /\ RLe(predicted_yield_g,
               Scaled(Least3(limit_light_g, limit_space_g, limit_root_g)))
        /\ RLe(predicted_yield_g, RMul(true_watts, Num(3)))

\* a run in which the hard cap cut the yield down to 3 g per watt
C1_Witness ==
    /\ YieldRan
    /\ predicted_yield_g = RMul(true_watts, Num(3))
    /\ RLt(predicted_yield_g, Scaled(bottleneck))

\* C2: exactly one limiting-factor label is reported; it names a ceiling
\* equal to the minimum of the three, light before space before root when
\* several ceilings equal the minimum.
C2_LabelMatchesMinimum ==
    (YieldRan /\ raised = "none") =>
        LET m == Least3(limit_light_g, limit_space_g, limit_root_g)
        IN  limiting_factor = IF limit_light_g = m THEN "LIGHT"
                              ELSE IF limit_space_g = m THEN "SPACE"
                              ELSE "ROOTS"

\* the three ceilings are equal and the label is the light one
C2_Witness ==
    /\ YieldRan
    /\ limit_light_g = limit_space_g
    /\ limit_space_g = limit_root_g
    /\ limiting_factor = "LIGHT"

\* C10 as stated: the predicted yield exceeds none of the three ceilings.
C10_Original ==
    YieldRan =>
        /\ RLe(predicted_yield_g, limit_light_g)
        /\ RLe(predicted_yield_g, limit_space_g)
        /\ RLe(predicted_yield_g, limit_root_g)

\* C10 amended: the predicted yield exceeds none of the three ceilings once
\* each is scaled by growerSkill * trainMult * medEff; it stays within the
\* ceilings themselves when that product is at most 1.
C10_YieldWithinScaledCeilings ==
    YieldRan =>
        /\ RLe(predicted_yield_g, Scaled(limit_light_g))
        /\ RLe(predicted_yield_g, Scaled(limit_space_g))
        /\ RLe(predicted_yield_g, Scaled(limit_root_g))
        /\ RLe(Scaled(One), One) =>
              /\ RLe(predicted_yield_g, limit_light_g)
              /\ RLe(predicted_yield_g, limit_space_g)
              /\ RLe(predicted_yield_g, limit_root_g)

\* skill, training and medium lifted the yield above the smallest ceiling
C10_Witness ==
    /\ YieldRan
    /\ RLt(bottleneck, predicted_yield_g)
    /\ RLt(predicted_yield_g, RMul(true_watts, Num(3)))

SumPhaseCosts == RAdd(RAdd(phase_costs.Veg, phase_costs.Flower), phase_costs.Dry)

\* C3: after each device, and after the whole list, total_kwh * kwh_cost
\* equals the sum of the three accumulated phase costs, and the reported
\* total cost is that sum.
C3_TotalCostIsSumOfPhaseCosts ==
    /\ pc = "for_row" => RMul(total_kwh, kwh_cost) = SumPhaseCosts
    /\ total_cost # Unbound => total_cost = SumPhaseCosts

\* a bill for two devices, one of them a light, with a dry-phase cost
C3_Witness ==
    /\ total_cost # Unbound
    /\ Len(edited_df) >= 2
    /\ \E i \in 1..Len(edited_df) : IsLight(edited_df[i].name)
    /\ RLt(Zero, phase_costs.Dry)
    /\ RLt(Zero, phase_costs.Veg)

\* hours per day the claim gives a device class in a phase
ActiveHours(light, phase) ==
    IF light THEN (IF phase = "Veg" THEN 18 ELSE IF phase = "Flower" THEN 12 ELSE 0)
    ELSE 24

Energy(w, hours, duty, days) ==
    Rat(w[1] * hours * duty[1] * days[1], 1000 * w[2] * duty[2] * days[2])

RowDone == index >= 2 /\ kwh_veg # Unbound

\* C4: each device's kWh per phase is watts * hours * duty * days / 1000 with
\* 18 / 12 / 0 hours for a light and 24 hours for any other device; one 600 W
\* light, 35 veg days, 63 flower days at 0.14 per kWh gives 378 kWh, 453.6 kWh
\* and a total cost of 116.424.
C4_EnergyPerDeviceAndPhase ==
    /\ RowDone =>
          LET row == edited_df[index - 1]
              light == IsLight(row.name)
          IN  /\ kwh_veg = Energy(row.watts, ActiveHours(light, "Veg"),
                                  row.veg_duty, days_veg)
              /\ kwh_flow = Energy(row.watts, ActiveHours(light, "Flower"),
                                   row.flower_duty, days_flower)
              /\ kwh_dry = Energy(row.watts, ActiveHours(light, "Dry"),
                                  row.dry_duty, days_dry)
    /\ ( /\ total_cost # Unbound
         /\ edited_df = <<add_device("Main Grow Light", Num(600), One, One, Zero)>>
         /\ days_veg = Num(35) /\ days_flower = Num(63)
         /\ kwh_cost = Rat(14, 100) )
       => /\ kwh_veg = Num(378)
          /\ kwh_flow = Rat(4536, 10)
          /\ total_cost = Rat(116424, 1000)

\* a light with a dry duty cycle of 1.0 was processed and used nothing in dry
C4_Witness ==
    /\ RowDone
    /\ IsLight(edited_df[index - 1].name)
    /\ edited_df[index - 1].dry_duty = One
    /\ RLt(Zero, days_dry)
    /\ kwh_dry = Zero
    /\ RLt(Zero, kwh_veg)

ReverseRan == target_g # Unbound

\* C5: the recommender runs to completion without raising and reports the
\* plant count ceil(targetGrams / 112) with watts, area and tier labels.
C5_RecommenderCompletes ==
    /\ raised # "NameError"
    /\ ReverseRan =>
          /\ pc = "done"
          /\ est_pots = Num(Ceil(RDiv(target_g, Num(112))))
          /\ req_watts # Unbound /\ req_sqft # Unbound
          /\ tent_rec # NoLabel /\ light_rec # NoLabel

OthersValid ==
    /\ RLe(Zero, GRAMS_PER_WATT_LED) /\ RLe(Zero, MAX_G_PER_SQFT)
    /\ RLe(Zero, length) /\ RLe(Zero, width) /\ RLe(Zero, true_watts)
    /\ RLe(Zero, pot_size) /\ RLe(Zero, plant_count)

Bands ==
    << <<0, "2x2.5 or 2x4 Tent", "200W-300W LED">>,
       <<5, "3x3 or 2x4 Tent", "300W-480W LED">>,
       <<10, "4x4 Tent", "600W-720W Bar LED">>,
       <<17, "5x5 Tent", "800W-1000W Bar LED + CO2">>,
       <<26, "Multiple Tents or Dedicated Room", "Multi-light Setup">> >>

\* lower bound inclusive, next band's lower bound exclusive
InBand(sqft, k) ==
    /\ RLe(Num(Bands[k][1]), sqft)
    /\ k < 5 => RLt(sqft, Num(Bands[k + 1][1]))

\* C8: a required area >= 0 falls in exactly one of [0,5), [5,10), [10,17),
\* [17,26), [26,inf); tent and light label are those of that band, so 5, 10,
\* 17 and 26 take the higher band; 1 Pound is 453.59 g, "4x4 Tent" and
\* "600W-720W Bar LED".
C8_TierBands ==
    /\ (ReverseRan /\ RLe(Zero, req_sqft)) =>
          /\ Cardinality({k \in 1..5 : InBand(req_sqft, k)}) = 1
          /\ \A k \in 1..5 :
                InBand(req_sqft, k) =>
                    tent_rec = Bands[k][2] /\ light_rec = Bands[k][3]
    /\ (ReverseRan /\ target_unit = "Pounds" /\ target_val = One) =>
          /\ target_g = Rat(45359, 100)
          /\ tent_rec = "4x4 Tent"
          /\ light_rec = "600W-720W Bar LED"

\* exactly 17 sq ft was required and the 5x5 tent was recommended
C8_Witness ==
    /\ ReverseRan
    /\ req_sqft = Num(17)
    /\ tent_rec = "5x5 Tent"
    /\ light_rec = "800W-1000W Bar LED + CO2"

Percent(x) == RLe(Zero, x) /\ RLe(x, Num(100))

\* C9: with an input mass >= 0 and percentages in [0,100], rosin <= input on
\* the dry-cured path and rosin <= hash <= input on the fresh-frozen path.
C9_ExtractNeverGains ==
    (rosin_g # Unbound /\ RLe(Zero, input_g)) =>
        IF input_type = "Dry Cured Flower"
        THEN Percent(return_rate) => RLe(rosin_g, input_g)
        ELSE (Percent(wash_yield) /\ Percent(press_yield)) =>
                 RLe(rosin_g, hash_g) /\ RLe(hash_g, input_g)

\* a fresh-frozen run whose two stages each lost mass
C9_Witness ==
    /\ rosin_g # Unbound
    /\ input_type = "Fresh Frozen (WPFF)"
    /\ RLt(Zero, rosin_g)
    /\ RLt(rosin_g, hash_g)
    /\ RLt(hash_g, input_g)

====
